---- MODULE Spec2Model ----
(***************************************************************************)
(* Storage-box inspection pipeline: SORT tracker (core/tracker.py), the    *)
(* per-track inventory ledger (modules/inventory.py), the signal decision  *)
(* ladder (modules/frame_processor.py) and the three-colour light          *)
(* controller with its writer worker and revert timers                     *)
(* (modules/light_controller.py), and main() of main.py, which builds the  *)
(* VideoProcessor, runs the frame loop and releases the processor.         *)
(*                                                                         *)
(* The Kalman filter and the IOU association are represented by their      *)
(* outcome per update call: which predictions are NaN, which surviving     *)
(* trackers are matched, and how many detections stay unmatched.           *)
(***************************************************************************)
EXTENDS Integers, Sequences, FiniteSets, TLC

(* ---------------- bounds of the exploration ---------------- *)
MaxFrames == 5
MaxTracks == 2
MaxDets == 2
MaxItems == 2
\* class-0 boxes per frame and items inside one box in the frames of the
\* loop of main()
SessionDets == 1
SessionItems == 1
MaxQueue == 2
MaxTimers == 2
\* frames the video source delivers before read_frame fails
MaxVideoFrames == 3
MaxCoord == 2
MaxRows == 2
MaxIouCoord == 3
MaxIouDets == 1
\* ids in one argument list of a ledger method called on its own
MaxLedgerIds == 2

(* ---------------- configuration ---------------- *)
\* VideoProcessor.__init__, lines 28-29: the parameters of the tracker when
\* no config is passed, as main() builds it
DefaultConfig == [sort_max_age |-> 30, sort_min_hits |-> 5]
\* a config argument with scaled-down tracker parameters
ShortConfig == [sort_max_age |-> 1, sort_min_hits |-> 2]

\* spec['class0']['contains'] after load_spec: class key -> quantity
Quantity == [class1 |-> 2, class2 |-> 1, class3 |-> 0]
\* class0.contains of the valid config/Configuration.json as it is written
\* in the file: class key -> quantity
FileQuantity == [class1 |-> 2, class2 |-> 1, class3 |-> -1]
\* class0.contains of a configuration file that lists the classes 1, 10
\* and 11 with quantity 1: class index -> quantity
WideFileQuantity == [i \in {1, 10, 11} |-> 1]
\* class key -> display name
names == [class1 |-> "bolt", class2 |-> "nut", class3 |-> "label"]


\* what utils/config_loader.load_spec finds at config/Configuration.json
ConfigFiles == {"valid", "missing", "no_class0", "contains_not_object"}

VARIABLES
  config_file,      \* the state of config/Configuration.json at session start
  config,           \* VideoProcessor.config with its defaults: the
                    \* parameters the tracker is built with
  contains,         \* VideoProcessor.spec['class0']['contains']: key -> quantity
  count,            \* KalmanBoxTracker.count (class attribute)
  trackers,         \* Sort.trackers
  frame_count,      \* Sort.frame_count
  tracks,           \* ids of the reportable tracks returned by the last update
  disappeared_ids,  \* disappeared-id list returned by the last update
  state,            \* InventoryManager.state
  ever_tracked_ids, \* InventoryManager.ever_tracked_ids
  active_ids,       \* InventoryManager.active_ids
  alerts,           \* alerts returned by the last handle_disappearance
  status,           \* {completed_ids, incomplete_ids} of the last call
  light,            \* LightController fields
  timers,           \* live timer threads (timer_func instances) and where
                    \* each stands: sleep, callback, send_blue, put_blue,
                    \* put_off, restore_blue, finally
  wire,             \* last two commands written to the serial port
  frame_pc,         \* position of the frame loop thread: in the loop
                    \* ("frame"), before a put_nowait of _send_command
                    \* ("put_..."), before timer_active = True of
                    \* _start_timer ("start_..."), or "raised"
  light_call,       \* controller method chosen by the last signal evaluation
  hist,             \* history of the tracker calls (observation only)
  main,             \* main() of main.py: its position, the frames read, the
                    \* event that ended the loop, camera_manager released
  geometry          \* arguments and result of the last call of iou_batch or
                    \* of the item assignment of process_frame

vars == <<config_file, config, contains, count, trackers, frame_count, tracks, disappeared_ids, state,
          ever_tracked_ids, active_ids, alerts, status, light, timers, wire,
          frame_pc, light_call, hist, main, geometry>>

\* Sort(max_age, min_hits) as VideoProcessor.__init__ builds it
max_age == config.sort_max_age
min_hits == config.sort_min_hits

\* InventoryManager.required: the class keys with int(quantity) > 0
required == {k \in DOMAIN contains : contains[k] > 0}

(* ---------------- sequence helpers ---------------- *)
Reverse(s) == [i \in 1..Len(s) |-> s[Len(s) + 1 - i]]

RECURSIVE KeepFrom(_, _, _)
KeepFrom(s, K, i) ==
  IF i > Len(s) THEN <<>>
  ELSE (IF i \in K THEN <<s[i]>> ELSE <<>>) \o KeepFrom(s, K, i + 1)

\* the elements of s whose index is in K, in order
KeepIdx(s, K) == KeepFrom(s, K, 1)

Range(s) == {s[i] : i \in 1..Len(s)}

(* ---------------- core/tracker.py ---------------- *)
ClipAtZero_None(v) == v
\* np.maximum(0., v)
ClipAtZero(v) == IF v > 0 THEN v ELSE 0

Max2(a, b) == IF a >= b THEN a ELSE b
Min2(a, b) == IF a <= b THEN a ELSE b

\* one entry of iou_batch, lines 26-34, for the boxes t of bb_test and g of
\* bb_gt: the quotient wh / (area(t) + area(g) - wh) as numerator and
\* denominator
Iou(t, g) ==
  LET xx1 == Max2(t.x1, g.x1)
      yy1 == Max2(t.y1, g.y1)
      xx2 == Min2(t.x2, g.x2)
      yy2 == Min2(t.y2, g.y2)
      w == ClipAtZero(xx2 - xx1)
      h == ClipAtZero(yy2 - yy1)
      wh == w * h
  IN [num |-> wh,
      den |-> (t.x2 - t.x1) * (t.y2 - t.y1) + (g.x2 - g.x1) * (g.y2 - g.y1) - wh]

\* iou_batch(bb_test, bb_gt): the matrix with one row per box of bb_test
iou_batch(bb_test, bb_gt) ==
  [i \in 1..Len(bb_test) |-> [j \in 1..Len(bb_gt) |-> Iou(bb_test[i], bb_gt[j])]]

\* a < b for two quotients with positive denominators
Below(a, b) == a.num * b.den < b.num * a.den

\* a + b for two quotients
QuotientSum(a, b) == [num |-> a.num * b.den + b.num * a.den, den |-> a.den * b.den]

\* line 137: the index pairs with iou_matrix > iou_threshold
OverThreshold(iou_matrix, iou_threshold, nd, nt) ==
  {p \in (1..nd) \X (1..nt) : Below(iou_threshold, iou_matrix[p[1]][p[2]])}

\* line 138: a.sum(1).max() == 1 and a.sum(0).max() == 1
UniquePairs(a, nd, nt) ==
  /\ a # {}
  /\ \A p, q \in a : (p[1] = q[1] \/ p[2] = q[2]) => p = q

\* the one-to-one assignments of min(nd, nt) pairs
Assignments(nd, nt) ==
  {A \in SUBSET ((1..nd) \X (1..nt)) :
     /\ Cardinality(A) = Min2(nd, nt)
     /\ \A p, q \in A : (p[1] = q[1] \/ p[2] = q[2]) => p = q}

\* the sum of the entries of iou_matrix over the pairs of A
RECURSIVE TotalIou(_, _)
TotalIou(iou_matrix, A) ==
  IF A = {} THEN [num |-> 0, den |-> 1]
  ELSE LET p == CHOOSE q \in A : TRUE
       IN QuotientSum(iou_matrix[p[1]][p[2]], TotalIou(iou_matrix, A \ {p}))

\* linear_assignment(-iou_matrix): the assignments of least cost, that is
\* of greatest total IOU; the solver returns one of them
linear_assignment(iou_matrix, nd, nt) ==
  {A \in Assignments(nd, nt) :
     \A B \in Assignments(nd, nt) :
       ~Below(TotalIou(iou_matrix, A), TotalIou(iou_matrix, B))}

\* lines 136-143: the values matched_indices can take
MatchedIndices(iou_matrix, iou_threshold, nd, nt) ==
  IF nd = 0 \/ nt = 0 THEN {{}}
  ELSE LET a == OverThreshold(iou_matrix, iou_threshold, nd, nt)
       IN IF UniquePairs(a, nd, nt) THEN {a}
          ELSE linear_assignment(iou_matrix, nd, nt)

\* the pairs of a one-to-one set in the order of their detection index
PairsInOrder(A) ==
  CHOOSE s \in [1..Cardinality(A) -> A] :
    \A i, j \in 1..Cardinality(A) : i < j => s[i][1] < s[j][1]

Demoted_Never(iou, iou_threshold) == FALSE
\* line 157: iou_matrix[m[0], m[1]] < iou_threshold
Demoted(iou, iou_threshold) == Below(iou, iou_threshold)

\* associate_detections_to_trackers, lines 145-167, for one value
\* matched_indices of the assignment
Associate(iou_matrix, iou_threshold, nd, nt, matched_indices) ==
  LET mi == PairsInOrder(matched_indices)
      low == SelectSeq(mi, LAMBDA m : Demoted(iou_matrix[m[1]][m[2]], iou_threshold))
      free_d == {d \in 1..nd : \A m \in matched_indices : m[1] # d}
      free_t == {t \in 1..nt : \A m \in matched_indices : m[2] # t}
  IN [matches |->
        SelectSeq(mi, LAMBDA m : ~Demoted(iou_matrix[m[1]][m[2]], iou_threshold)),
      unmatched_detections |->
        KeepIdx([d \in 1..nd |-> d], free_d) \o [i \in 1..Len(low) |-> low[i][1]],
      unmatched_trackers |->
        KeepIdx([t \in 1..nt |-> t], free_t) \o [i \in 1..Len(low) |-> low[i][2]]]

\* KalmanBoxTracker.__init__: id = count, counters zero, never returned
NewTracker(c) ==
  [id |-> c, time_since_update |-> 0, hit_streak |-> 0,
   has_been_returned |-> FALSE]

NextCount_NoIncrement(c) == c
\* KalmanBoxTracker.count += 1
NextCount(c) == c + 1

StreakAfterPredict_Kept(trk) == trk.hit_streak
\* lines 112-113: "if self.time_since_update > 0: self.hit_streak = 0"
StreakAfterPredict(trk) ==
  IF trk.time_since_update > 0 THEN 0 ELSE trk.hit_streak

\* KalmanBoxTracker.predict
Predict(trk) ==
  [trk EXCEPT !.hit_streak = StreakAfterPredict(trk),
              !.time_since_update = @ + 1]

\* KalmanBoxTracker.update
KalmanUpdate(trk) ==
  [trk EXCEPT !.time_since_update = 0, !.hit_streak = @ + 1]

TrackId_Shared(trk) == 1
\* the id reported to the outside: trk.id + 1
TrackId(trk) == trk.id + 1

Reportable_NoGrace(trk, fc) ==
  /\ trk.time_since_update < 1
  /\ trk.hit_streak >= min_hits
\* condition of line 224
Reportable(trk, fc) ==
  /\ trk.time_since_update < 1
  /\ (trk.hit_streak >= min_hits \/ fc <= min_hits)

Stale_AtMaxAge(trk) == trk.time_since_update >= max_age
\* condition of line 229
Stale(trk) == trk.time_since_update > max_age

ReportsDisappearance_Always(trk) == TRUE
\* "if tracker.has_been_returned" before disappeared_ids.append
ReportsDisappearance(trk) == trk.has_been_returned

KeepsTrack_All(trk) == TRUE
\* a tracker stays in self.trackers unless it is popped as stale
KeepsTrack(trk) == ~Stale(trk)

\* new trackers for n unmatched detections, ids c, c+1, ...
RECURSIVE NewTrackers(_, _)
NewTrackers(c, n) ==
  IF n = 0 THEN <<>> ELSE <<NewTracker(c)>> \o NewTrackers(NextCount(c), n - 1)

RECURSIVE CountAfter(_, _)
CountAfter(c, n) == IF n = 0 THEN c ELSE CountAfter(NextCount(c), n - 1)

\* Sort.update.  nan: indices of the trackers whose prediction is NaN;
\* matched: indices (after the NaN rows are dropped) of the trackers that
\* the association matched; nNew: number of unmatched detections.
SortUpdate(trks, c, fc, nan, matched, nNew) ==
  LET fc1 == fc + 1
      pred == [i \in 1..Len(trks) |-> Predict(trks[i])]
      toDel == KeepIdx(pred, nan)
      nanGone == SelectSeq(Reverse(toDel), ReportsDisappearance)
      surv == KeepIdx(pred, (1..Len(pred)) \ nan)
      upd == [i \in 1..Len(surv) |->
                IF i \in matched THEN KalmanUpdate(surv[i]) ELSE surv[i]]
      all == upd \o NewTrackers(c, nNew)
      mark == [i \in 1..Len(all) |->
                 IF Reportable(all[i], fc1)
                 THEN [all[i] EXCEPT !.has_been_returned = TRUE]
                 ELSE all[i]]
      rev == Reverse(mark)
      ret == SelectSeq(rev, LAMBDA t : Reportable(t, fc1))
      gone == SelectSeq(rev, LAMBDA t : Stale(t) /\ ReportsDisappearance(t))
      removed == {mark[i].id + 1 : i \in {j \in 1..Len(mark) : Stale(mark[j])}}
                   \cup {toDel[i].id + 1 : i \in 1..Len(toDel)}
  IN [trackers |-> SelectSeq(mark, KeepsTrack),
      count |-> CountAfter(c, nNew),
      frame_count |-> fc1,
      tracks |-> [i \in 1..Len(ret) |-> TrackId(ret[i])],
      disappeared_ids |->
         [i \in 1..Len(nanGone) |-> TrackId(nanGone[i])]
           \o [i \in 1..Len(gone) |-> TrackId(gone[i])],
      removed |-> removed,
      removed_nan |-> {toDel[i].id + 1 : i \in 1..Len(toDel)},
      matched |-> {surv[i].id + 1 : i \in matched \cap (1..Len(surv))},
      removed_unreturned |->
         {mark[i].id + 1 : i \in {j \in 1..Len(mark) :
                                    Stale(mark[j]) /\ ~mark[j].has_been_returned}}
           \cup {toDel[i].id + 1 : i \in {j \in 1..Len(toDel) :
                                            ~toDel[j].has_been_returned}},
      created |-> [i \in 1..nNew |-> NewTrackers(c, nNew)[i].id + 1]]

(* ---------------- core/detection.py, item counting of process_frame ---- *)
CenterInBox_Strict(row, b) ==
  /\ row.x1 + row.x2 > 2 * b.x1 /\ row.x1 + row.x2 < 2 * b.x2
  /\ row.y1 + row.y2 > 2 * b.y1 /\ row.y1 + row.y2 < 2 * b.y2
\* center_in_box, lines 137-145: item_cx = (ix1 + ix2) / 2.0 and item_cy
\* lie within the box, the boundary included
CenterInBox(row, b) ==
  /\ row.x1 + row.x2 >= 2 * b.x1 /\ row.x1 + row.x2 <= 2 * b.x2
  /\ row.y1 + row.y2 >= 2 * b.y1 /\ row.y1 + row.y2 <= 2 * b.y2

\* assign_items_to_boxes: box index -> the rows whose centre is in the box,
\* for the boxes that got a row
assign_items_to_boxes(class0_boxes_xyxy, items_xyxycls) ==
  [i \in {j \in 1..Len(class0_boxes_xyxy) :
            \E n \in 1..Len(items_xyxycls) :
              CenterInBox(items_xyxycls[n], class0_boxes_xyxy[j])}
     |-> SelectSeq(items_xyxycls,
                   LAMBDA row : CenterInBox(row, class0_boxes_xyxy[i]))]

\* f'class{cls_id}'
ClassKey(cls_id) ==
  CASE cls_id = 1 -> "class1" [] cls_id = 2 -> "class2" [] cls_id = 3 -> "class3"
    [] cls_id = 4 -> "class4" [] cls_id = 5 -> "class5" [] cls_id = 6 -> "class6"
    [] cls_id = 7 -> "class7" [] cls_id = 8 -> "class8" [] cls_id = 9 -> "class9"
    [] cls_id = 10 -> "class10"

\* process_frame, lines 92-100: the Counter of the rows of one box, which
\* counts the classes 1 to 9
CountRows(rows) ==
  LET counted == SelectSeq(rows, LAMBDA r : 1 <= r.cls /\ r.cls <= 9)
  IN [k \in {ClassKey(counted[n].cls) : n \in 1..Len(counted)} |->
        Cardinality({n \in 1..Len(counted) : ClassKey(counted[n].cls) = k})]

\* process_frame, lines 81-104: items_assign, track id -> Counter
ItemsAssign(tracked_boxes, others_nd) ==
  IF Len(tracked_boxes) > 0 /\ Len(others_nd) > 0
  THEN LET assign == assign_items_to_boxes(tracked_boxes, others_nd)
       IN [tid \in {tracked_boxes[i].id : i \in DOMAIN assign} |->
             CountRows(assign[CHOOSE i \in DOMAIN assign :
                                tracked_boxes[i].id = tid])]
  ELSE <<>>

\* Counter()[key]: 0 for a key that is not there
CounterGet(c, k) == IF k \in DOMAIN c THEN c[k] ELSE 0

\* items_by_track.get(track_id, Counter())
ItemsGet(items_by_track, track_id) ==
  IF track_id \in DOMAIN items_by_track THEN items_by_track[track_id] ELSE <<>>

(* ---------------- utils/config_loader.py, modules/video_processor.py ---- *)
NormalQuantity_Abs(qty) == IF qty < 0 THEN -qty ELSE qty
\* load_spec, lines 97-102: qty = int(quantity), a negative one becomes 0
NormalQuantity(qty) == IF qty < 0 THEN 0 ELSE qty

\* load_spec, lines 86-92: the keys class<n> with 1 <= n <= 10 are kept
KeptIndex(cls_idx) == ~(cls_idx < 1 \/ cls_idx > 10)

\* load_spec: raises FileNotFoundError for a missing file and ValueError for
\* a file without class0 or whose class0.contains is not an object; returns
\* the normalised contains of a valid file
load_spec(file) ==
  CASE file = "valid" ->
         [raised |-> FALSE,
          contains |-> [k \in DOMAIN FileQuantity |-> NormalQuantity(FileQuantity[k])]]
    [] file = "wide" ->
         [raised |-> FALSE,
          contains |->
            [k \in {ClassKey(i) : i \in {j \in DOMAIN WideFileQuantity : KeptIndex(j)}} |->
               NormalQuantity(WideFileQuantity[
                 CHOOSE i \in DOMAIN WideFileQuantity : KeptIndex(i) /\ ClassKey(i) = k])]]
    [] OTHER -> [raised |-> TRUE, contains |-> <<>>]

\* VideoProcessor.__init__, lines 53-61: an exception of load_spec is caught
\* and the spec becomes {'class0': {'name': ..., 'contains': {}}}
SpecOrRaise(file) ==
  [aborted |-> FALSE,
   contains |-> IF load_spec(file).raised THEN <<>> ELSE load_spec(file).contains]

(* ---------------- modules/inventory.py ---------------- *)
\* the record _ensure_track creates
EnsureTrack ==
  [achieved |-> [k \in required |-> 0],
   completed |-> [k \in required |-> FALSE],
   is_all_completed |-> FALSE]

CompletedAfter_NotSticky(was, have, need) == have >= need
\* lines 53-56: a flag that is true stays true, a false one is set by have >= need
CompletedAfter(was, have, need) == was \/ have >= need

IsAllCompleted_Any(completed) == \E k \in required : completed[k]
\* line 57
IsAllCompleted(completed) ==
  IF required # {} THEN \A k \in required : completed[k] ELSE TRUE

Achieved_Cumulative(info, frame_counts, k) == info.achieved[k] + frame_counts[k]
\* lines 47-50: achieved is cleared and then set from the counts of the frame
Achieved(info, frame_counts, k) == frame_counts[k]

\* body of the loop of update_for_frame for one reportable track;
\* frame_counts is items_by_track.get(track_id, Counter())
UpdateTrack(info, frame_counts) ==
  LET achieved == [k \in required |-> Achieved(info, frame_counts, k)]
      completed == [k \in required |->
                      CompletedAfter(info.completed[k], achieved[k], contains[k])]
  IN [achieved |-> achieved,
      completed |-> completed,
      is_all_completed |-> IsAllCompleted(completed)]

\* update_for_frame: st is self.state, ids the reportable track ids
UpdateForFrame(st, ids, items_by_track) ==
  [t \in DOMAIN st \cup Range(ids) |->
     IF t \in Range(ids)
     THEN UpdateTrack(IF t \in DOMAIN st THEN st[t] ELSE EnsureTrack,
                      items_by_track[t])
     ELSE st[t]]

\* get_labels_for_track for the drawn tracks: its _ensure_track call creates
\* the record of an id the ledger does not know yet
LabelsForTracks(st, ids) ==
  [t \in DOMAIN st \cup Range(ids) |->
     IF t \in DOMAIN st THEN st[t] ELSE EnsureTrack]

Missing_AllRequired(info) == {<<k, names[k]>> : k \in required}
\* lines 89-92: the required classes whose completed flag is false
Missing(info) == {<<k, names[k]>> : k \in {c \in required : ~info.completed[c]}}

EverTracked_Always(ever, tid) == TRUE
\* line 78: the id is in self.ever_tracked_ids
EverTracked(ever, tid) == tid \in ever

Classify_Swapped(st, ever, tid) ==
  IF ~EverTracked(ever, tid) \/ tid \notin DOMAIN st THEN "skip"
  ELSE IF st[tid].is_all_completed THEN "incomplete" ELSE "completed"
\* lines 78-98: what handle_disappearance does with one id
Classify(st, ever, tid) ==
  IF ~EverTracked(ever, tid) \/ tid \notin DOMAIN st THEN "skip"
  ELSE IF st[tid].is_all_completed THEN "completed" ELSE "incomplete"

AlertFor_NothingCompleted(tid, missing) ==
  IF missing # {} /\ missing = {<<k, names[k]>> : k \in required}
  THEN <<[track_id |-> tid, missing |-> missing]>> ELSE <<>>
\* lines 93-95: "if missing: alerts.append(...)"
AlertFor(tid, missing) ==
  IF missing # {} THEN <<[track_id |-> tid, missing |-> missing]>> ELSE <<>>

\* handle_disappearance
RECURSIVE HandleDisappearance(_, _, _)
HandleDisappearance(st, ever, ids) ==
  IF ids = <<>>
  THEN [alerts |-> <<>>, completed_ids |-> <<>>, incomplete_ids |-> <<>>]
  ELSE LET tid == Head(ids)
           kind == Classify(st, ever, tid)
           rest == HandleDisappearance(st, ever, Tail(ids))
           missing == Missing(st[tid])
       IN [alerts |->
             (IF kind = "incomplete" THEN AlertFor(tid, missing) ELSE <<>>)
               \o rest.alerts,
           completed_ids |->
             (IF kind = "completed" THEN <<tid>> ELSE <<>>) \o rest.completed_ids,
           incomplete_ids |->
             (IF kind = "incomplete" THEN <<tid>> ELSE <<>>) \o rest.incomplete_ids]

(* ---------------- modules/light_controller.py ---------------- *)
\* keys of LightController.COMMANDS used by the pipeline
ALL_OFF == "all_off"                  \* "关闭全部"
YELLOW_ON == "yellow_on"              \* "黄灯常亮"
BLUE_ON == "blue_on"                  \* "蓝灯常亮"
GREEN_ON == "green_on"                \* "绿灯常亮"
RED_FLASH_BUZZER == "red_flash_buzzer" \* "红灯快闪+蜂鸣"
RED_BUZZER_OFF == "red_buzzer_off"    \* "关闭红灯+蜂鸣"

\* the None that close() puts on the queue to wake the worker
SENTINEL == "None"

\* LightController.__init__; opened: serial.Serial(...) succeeded.  Without
\* the port the controller is disabled and no worker thread is started.
\* ser_open: self.ser and self.ser.is_open; worker: position of _worker,
\* before the test of "while self.running" ("check", where the thread
\* starts), in cmd_queue.get ("get"), or ended ("exited"); unfinished:
\* cmd_queue.unfinished_tasks, which cmd_queue.join() waits on
LightInit(opened) ==
  [enabled |-> opened, current_state |-> ALL_OFF, timer_active |-> FALSE,
   cmd_queue |-> <<>>, running |-> opened, ser_open |-> opened,
   worker |-> IF opened THEN "check" ELSE "none", unfinished |-> 0]

\* cmd_queue.put_nowait(item)
put_nowait(L, item) ==
  [L EXCEPT !.cmd_queue = Append(@, item), !.unfinished = @ + 1]

\* _send_command on the calling thread, lines 108-124: "if not
\* self.enabled: return", then under self.lock the comparison with
\* current_state.  TRUE: the call goes on to cmd_queue.put_nowait(_write) at
\* line 138, which stands outside the lock: the worker, the timers and the
\* other callers run between the comparison and the put
send_command(L, command_name) ==
  L.enabled /\ command_name # L.current_state

\* _cancel_timer
cancel_timer(L) == [L EXCEPT !.timer_active = FALSE]

\* is_timer_running
is_timer_running(L) == L.timer_active

\* the command of yellow_light_on, blue_light_on, turn_off_all,
\* green_light_on and red_light_flash_with_buzzer
CommandOf(call) ==
  CASE call = "yellow" -> YELLOW_ON
    [] call = "blue" -> BLUE_ON
    [] call = "off" -> ALL_OFF
    [] call = "green" -> GREEN_ON
    [] call = "red" -> RED_FLASH_BUZZER

\* the methods that end with _start_timer
Timed(call) == call \in {"red", "green"}

\* _write on the worker thread: ser.write, then current_state = command_name
write_command(L, command_name) == [L EXCEPT !.current_state = command_name]

write_failed_StateSet(L, command_name) == [L EXCEPT !.current_state = command_name]
\* _write when ser.write raises: the exception is caught and printed inside
\* _write, before current_state is assigned
write_failed(L, command_name) == L

\* the serial line as the hardware sees it: the last command received and
\* whether it repeated the command received just before it
Received(w, command_name) ==
  [last |-> command_name, same_twice |-> w.last = command_name]

(* ---------------- modules/frame_processor.py ---------------- *)
SteadyCall_Swapped(has_storage_box) ==
  IF ~has_storage_box THEN "blue" ELSE "yellow"
\* lines 176-181: the steady colour, yellow without a tracked box
SteadyCall(has_storage_box) ==
  IF ~has_storage_box THEN "yellow" ELSE "blue"

LightDecision_GreenFirst(has_storage_box, completed_ids, incomplete_ids, timer_running) ==
  IF completed_ids # <<>> THEN "green"
  ELSE IF incomplete_ids # <<>> THEN "red"
  ELSE IF timer_running THEN "none"
  ELSE SteadyCall(has_storage_box)
\* the ladder of _update_light_status: which controller method is called
LightDecision(has_storage_box, completed_ids, incomplete_ids, timer_running) ==
  IF incomplete_ids # <<>> THEN "red"
  ELSE IF completed_ids # <<>> THEN "green"
  ELSE IF timer_running THEN "none"
  ELSE SteadyCall(has_storage_box)

\* the controller after the call chosen by the ladder, up to the comparison
\* of _send_command.  yellow_light_on and blue_light_on cancel the timer
\* first; green_light_on and red_light_flash_with_buzzer send first, and
\* when nothing is to be queued go on to the _cancel_timer() that opens
\* _start_timer
AfterLightCall(L, call) ==
  CASE call \in {"yellow", "blue"} -> cancel_timer(L)
    [] Timed(call) ->
         IF send_command(L, CommandOf(call)) THEN L ELSE cancel_timer(L)
    [] OTHER -> L

\* position of the frame thread after the comparison: before the
\* put_nowait of its command, before the timer_active = True of
\* _start_timer, or back in the frame loop
PcAfterLightCall(L, call) ==
  CASE call = "none" -> "frame"
    [] send_command(L, CommandOf(call)) ->
         (CASE call = "yellow" -> "put_yellow" [] call = "blue" -> "put_blue"
            [] call = "red" -> "put_red" [] call = "green" -> "put_green")
    [] call = "red" -> "start_red"
    [] call = "green" -> "start_green"
    [] OTHER -> "frame"

\* the frame thread stands before cmd_queue.put_nowait
PutPending == {"put_yellow", "put_blue", "put_red", "put_green"}

\* the call the frame thread is in
CallOf(pc) ==
  CASE pc = "put_yellow" -> "yellow"
    [] pc = "put_blue" -> "blue"
    [] pc \in {"put_red", "start_red"} -> "red"
    [] pc \in {"put_green", "start_green"} -> "green"

(* ---------------- main.py ---------------- *)
\* main() after processor = VideoProcessor(...), lines 18-21.  followed:
\* the statements of main() are followed from here on; otherwise only the
\* calls of process_frame are, and the caller's own state stays as it is
\* (pc "none").  reads: the frames read_frame has delivered; event: what
\* ended the frame loop; released: camera_manager.release() has been
\* called; exited: the interpreter has finished after the end of main()
MainState(followed) ==
  [pc |-> IF followed THEN "init" ELSE "none", reads |-> 0,
   event |-> "none", released |-> FALSE, exited |-> FALSE]

\* the outcomes of lines 25-37 for video_path = 0: init_camera returns with
\* the camera opened, or it raises (RuntimeError for a camera that cannot be
\* opened) and main() returns at line 34
StartOutcomes == {"opened", "init_exception"}

\* the positions in which main() has ended: after release() ("done"), by
\* the return of line 34 ("returned"), or by an exception of process_frame,
\* which no handler of main() catches ("raised")
Ended == {"done", "returned", "raised"}

\* the interpreter runs: the worker and the timers are daemon threads, which
\* run on after main() has ended until the interpreter has finished
ProcessRuns == ~main.exited

(* ---------------- state machine ---------------- *)
ItemKeys == DOMAIN Quantity

\* state after construction; opened: the serial port could be opened;
\* file: the state of the configuration file; cfg: the tracker parameters
\* of the config argument; followed: main() is followed from the
\* construction of the VideoProcessor on
InitIn(opened, file, cfg, followed) ==
  /\ config_file = file
  /\ config = cfg
  /\ ~SpecOrRaise(file).aborted
  /\ contains = SpecOrRaise(file).contains
  /\ count = 0
  /\ trackers = <<>>
  /\ frame_count = 0
  /\ tracks = <<>>
  /\ disappeared_ids = <<>>
  /\ state = <<>>
  /\ ever_tracked_ids = {}
  /\ active_ids = {}
  /\ alerts = <<>>
  /\ status = [completed_ids |-> <<>>, incomplete_ids |-> <<>>]
  /\ light = LightInit(opened)
  /\ timers = <<>>
  /\ wire = [last |-> "none", same_twice |-> FALSE]
  /\ frame_pc = "frame"
  /\ light_call = "none"
  /\ main = MainState(followed)
  /\ geometry = [op |-> "none"]
  /\ hist = [returned |-> {}, returned_before |-> {}, removed |-> {},
             removed_nan |-> {}, matched |-> {}, frame_counts |-> <<>>,
             alerted |-> <<>>, streak |-> <<>>,
             gone |-> {}, removed_unreturned |-> {}, reported |-> <<>>,
             created |-> <<>>, created_after_gone |-> FALSE,
             inflight |-> FALSE, stale_clear |-> FALSE,
             write_failed |-> FALSE, recovered |-> FALSE]

\* the VideoProcessor built with the config ShortConfig, with its tracker,
\* ledger and light controller as its constructor leaves them, for the
\* calls of process_frame alone
InitWith(opened, file) == InitIn(opened, file, ShortConfig, FALSE)

\* the newest timer is still in its sleep: a timed command is in flight
InFlight ==
  /\ timers # <<>>
  /\ timers[Len(timers)].pc = "sleep"

\* Counter values a frame can show inside one box: at most MaxItems items
FrameCounts ==
  {c \in [ItemKeys -> 0..MaxItems] : c.class1 + c.class2 + c.class3 <= MaxItems}

\* the Counter values with at most m items
CountsUpTo(m) ==
  {c \in FrameCounts : c.class1 + c.class2 + c.class3 <= m}

\* _update_light_status on the frame thread, up to the comparison of
\* _send_command in the method it calls: the frame thread goes on in
\* FramePut or StartTimer, or is back in process_frame
UpdateLightStatus(has_storage_box, completed_ids, incomplete_ids) ==
  LET call == LightDecision(has_storage_box, completed_ids, incomplete_ids,
                            is_timer_running(light))
  IN /\ light' = AfterLightCall(light, call)
     /\ light_call' = call
     /\ frame_pc' = PcAfterLightCall(light, call)
     /\ status' = [completed_ids |-> completed_ids,
                   incomplete_ids |-> incomplete_ids]

\* utils/visualizer.py draw_tracked_boxes, line 53: int() of the
\* coordinates of every returned row.  nan_rows: the ids of the returned
\* rows with a NaN coordinate; int(NaN) raises ValueError
DrawsBoxes(nan_rows) == nan_rows = {}

\* FrameProcessor.process_frame(frame, visualize=True) after Sort.update
\* returned r: update_for_frame, handle_disappearance, draw_storage_boxes,
\* the labels of the drawn tracks and _update_light_status up to the
\* comparison of _send_command.  When draw_storage_boxes raises,
\* process_frame is left with the tracker and the ledger updated, before
\* the labels and before _update_light_status
ProcessFrame(r, items, nan_rows) ==
  LET upd == UpdateForFrame(state, r.tracks, items)
      ever == ever_tracked_ids \cup Range(r.tracks)
      h == HandleDisappearance(upd, ever, r.disappeared_ids)
      st == LabelsForTracks(upd, r.tracks)
  IN /\ trackers' = r.trackers
     /\ count' = r.count
     /\ frame_count' = r.frame_count
     /\ tracks' = r.tracks
     /\ disappeared_ids' = r.disappeared_ids
     /\ state' = IF DrawsBoxes(nan_rows) THEN st ELSE upd
     /\ ever_tracked_ids' = ever
     /\ active_ids' = Range(r.tracks)
     /\ alerts' = h.alerts
     /\ IF DrawsBoxes(nan_rows)
        THEN UpdateLightStatus(r.tracks # <<>>, h.completed_ids,
                               h.incomplete_ids)
        ELSE /\ frame_pc' = "raised"
             /\ status' = [completed_ids |-> h.completed_ids,
                           incomplete_ids |-> h.incomplete_ids]
             /\ UNCHANGED <<light, light_call>>
     /\ hist' = [returned |-> hist.returned \cup Range(r.tracks),
                 returned_before |-> hist.returned,
                 removed |-> r.removed,
                 removed_nan |-> r.removed_nan,
                 matched |-> r.matched,
                 streak |->
                    [t \in {TrackId(r.trackers[i]) : i \in 1..Len(r.trackers)} |->
                       IF t \in r.matched
                       THEN (IF t \in DOMAIN hist.streak THEN hist.streak[t] ELSE 0) + 1
                       ELSE 0],
                 alerted |->
                    hist.alerted \o [i \in 1..Len(h.alerts) |-> h.alerts[i].track_id],
                 frame_counts |->
                    [t \in Range(r.tracks) |-> [k \in required |-> items[t][k]]],
                 gone |-> hist.gone \cup r.removed,
                 removed_unreturned |->
                    hist.removed_unreturned \cup r.removed_unreturned,
                 reported |-> hist.reported \o r.disappeared_ids,
                 created |-> hist.created \o r.created,
                 created_after_gone |->
                    hist.created_after_gone
                      \/ (r.created # <<>> /\ hist.gone # {}),
                 inflight |-> InFlight,
                 stale_clear |-> hist.stale_clear,
                 write_failed |-> hist.write_failed,
                 recovered |-> hist.recovered]
     /\ UNCHANGED <<timers, wire, config_file, config, contains, geometry>>

\* the returned rows that can hold a NaN coordinate: a tracker created in
\* this call from a class-0 box of zero width or height (convert_bbox_to_z
\* gives area 0, convert_x_to_bbox divides 0 by 0) and returned in the same
\* call.  A tracker that was predicted without NaN and then matched keeps a
\* positive area and ratio
NanRows(r) == Range(r.created) \cap Range(r.tracks)

\* process_frame on the detections of one frame: Sort.update on the
\* class-0 boxes, then ProcessFrame.  nan: the trackers whose prediction is
\* NaN; matched, nNew: the boxes matched to a tracker and the unmatched
\* ones; nan_rows: the returned tracks whose detection box has zero width or
\* height; no item centre lies in a box with NaN coordinates; max_dets,
\* max_items: the class-0 boxes of the frame and the items inside one box
DetectAndTrack(max_dets, max_items) ==
  /\ frame_count < MaxFrames
  /\ \E nan \in SUBSET (1..Len(trackers)) :
       \E matched \in SUBSET (1..(Len(trackers) - Cardinality(nan))) :
         /\ Cardinality(matched) <= max_dets
         /\ \E nNew \in 0..(max_dets - Cardinality(matched)) :
              LET r == SortUpdate(trackers, count, frame_count, nan, matched, nNew)
              IN /\ r.count <= MaxTracks
                 /\ \E nan_rows \in SUBSET NanRows(r) :
                      \E items \in [Range(r.tracks) -> CountsUpTo(max_items)] :
                        /\ \A t \in nan_rows :
                             \A k \in ItemKeys : items[t][k] = 0
                        /\ ProcessFrame(r, items, nan_rows)

\* FrameProcessor.process_frame called on one frame after the other, as the
\* frame loop calls it; the caller's own state is not part of the call.
\* After an exception of process_frame the loop ends and there is no
\* further call
Frame ==
  /\ frame_pc = "frame"
  /\ DetectAndTrack(MaxDets, MaxItems)
  /\ UNCHANGED main

\* _update_light_status as the frame loop calls it, on the outcome of one
\* frame: has_storage_box and the ids of disappearance_status
SignalFrame ==
  /\ frame_pc = "frame"
  /\ \E has_storage_box \in BOOLEAN :
       \E completed_ids \in {<<>>, <<1>>} :
         \E incomplete_ids \in {<<>>, <<2>>} :
           /\ UpdateLightStatus(has_storage_box, completed_ids, incomplete_ids)
           /\ light_call' \in {"red", "green"} => Len(timers) < MaxTimers
  /\ hist' = [hist EXCEPT !.inflight = InFlight]
  /\ UNCHANGED <<count, trackers, frame_count, tracks, disappeared_ids, state,
                 ever_tracked_ids, active_ids, alerts, timers, wire,
                 config_file, config, contains, geometry>>
  /\ UNCHANGED main

\* main() after process_frame returned, lines 47-53: imshow and waitKey
\* (visualize_display is True), and the break when the key is q; otherwise
\* end_timer and the next loop test.  m: main() with the frame counted
AfterProcessFrame(m) ==
  \E key \in {"q", "other"} :
    main' = IF key = "q" THEN [m EXCEPT !.pc = "release", !.event = "quit"]
            ELSE m

\* process_frame returns: into the frame loop of main() when main() called it
ProcessFrameReturns ==
  IF main.pc = "loop" THEN AfterProcessFrame(main)
  ELSE UNCHANGED main

\* cmd_queue.put_nowait(_write) of the frame thread, line 138, some time
\* after the comparison.  yellow_light_on and blue_light_on return after
\* it, and with them _update_light_status and process_frame; green_light_on
\* and red_light_flash_with_buzzer go on to the _cancel_timer() that opens
\* _start_timer
FramePut ==
  /\ frame_pc \in PutPending
  /\ Len(light.cmd_queue) < MaxQueue
  /\ LET call == CallOf(frame_pc)
         L == put_nowait(light, CommandOf(call))
     IN /\ light' = IF Timed(call) THEN cancel_timer(L) ELSE L
        /\ frame_pc' = CASE call = "red" -> "start_red"
                         [] call = "green" -> "start_green"
                         [] OTHER -> "frame"
        /\ IF Timed(call) THEN UNCHANGED main
           ELSE ProcessFrameReturns
  /\ UNCHANGED <<count, trackers, frame_count, tracks, disappeared_ids, state,
                 ever_tracked_ids, active_ids, alerts, status, timers, wire,
                 light_call, hist, config_file, config, contains, geometry>>

\* _start_timer after its _cancel_timer(): timer_active = True and the
\* timer thread is started; the method returns, and with it
\* _update_light_status and process_frame
StartTimer ==
  /\ frame_pc \in {"start_red", "start_green"}
  /\ light' = [light EXCEPT !.timer_active = TRUE]
  /\ timers' = [i \in 1..Len(timers) |->
                  [timers[i] EXCEPT !.superseded = @ \/ timers[i].pc = "sleep"]]
                 \o <<[kind |-> IF frame_pc = "start_red" THEN "red" ELSE "green",
                       pc |-> "sleep", superseded |-> FALSE]>>
  /\ frame_pc' = "frame"
  /\ ProcessFrameReturns
  /\ UNCHANGED <<count, trackers, frame_count, tracks, disappeared_ids, state,
                 ever_tracked_ids, active_ids, alerts, status, wire,
                 light_call, hist, config_file, config, contains, geometry>>

unchanged_tracking ==
  /\ UNCHANGED <<count, trackers, frame_count, tracks, disappeared_ids, state,
                 ever_tracked_ids, active_ids, alerts, config_file, config, contains,
                 geometry>>

unchanged_pipeline ==
  /\ unchanged_tracking
  /\ UNCHANGED <<status, frame_pc, light_call>>
  /\ UNCHANGED main

\* observation: timer i, superseded by a newer timed command, clears the
\* timer_active flag that the newer command set
ObserveClear(i) ==
  hist' = [hist EXCEPT !.stale_clear =
             @ \/ (timers[i].superseded /\ light.timer_active
                                         /\ ~light'.timer_active)]

\* timer_func: time.sleep(duration) is over; "if self.timer_active"
TimerWake(i) ==
  /\ timers[i].pc = "sleep"
  /\ timers' = [timers EXCEPT ![i].pc =
                  IF is_timer_running(light) THEN "callback" ELSE "finally"]
  /\ UNCHANGED <<light, wire, hist>>
  /\ unchanged_pipeline

\* callback().  For the green command blue_light_on: its _cancel_timer()
\* and the "if not self.enabled" of _send_command.  For the red command
\* _restore, whose first statement is _send_command("关闭红灯+蜂鸣"): the
\* comparison under the lock
TimerCallback(i) ==
  /\ timers[i].pc = "callback"
  /\ IF timers[i].kind = "green"
     THEN /\ light' = cancel_timer(light)
          /\ timers' = [timers EXCEPT ![i].pc =
                          IF light.enabled THEN "send_blue" ELSE "finally"]
     ELSE /\ light' = light
          /\ timers' = [timers EXCEPT ![i].pc =
                          IF send_command(light, RED_BUZZER_OFF)
                          THEN "put_off" ELSE "restore_blue"]
  /\ UNCHANGED wire
  /\ ObserveClear(i)
  /\ unchanged_pipeline

\* _restore after time.sleep(0.1): self.blue_light_on(), its
\* _cancel_timer() and the "if not self.enabled" of _send_command
TimerRestoreBlue(i) ==
  /\ timers[i].pc = "restore_blue"
  /\ light' = cancel_timer(light)
  /\ timers' = [timers EXCEPT ![i].pc =
                  IF light.enabled THEN "send_blue" ELSE "finally"]
  /\ UNCHANGED wire
  /\ ObserveClear(i)
  /\ unchanged_pipeline

\* _send_command("蓝灯常亮") of blue_light_on on the timer thread: the
\* comparison under the lock
TimerSendBlue(i) ==
  /\ timers[i].pc = "send_blue"
  /\ timers' = [timers EXCEPT ![i].pc =
                  IF send_command(light, BLUE_ON) THEN "put_blue"
                  ELSE "finally"]
  /\ UNCHANGED <<light, wire, hist>>
  /\ unchanged_pipeline

\* cmd_queue.put_nowait(_write) of the timer thread, line 138, some time
\* after the comparison
TimerPut(i) ==
  /\ timers[i].pc \in {"put_off", "put_blue"}
  /\ Len(light.cmd_queue) < MaxQueue
  /\ light' = put_nowait(light, IF timers[i].pc = "put_off"
                                THEN RED_BUZZER_OFF ELSE BLUE_ON)
  /\ timers' = [timers EXCEPT ![i].pc =
                  IF timers[i].pc = "put_off" THEN "restore_blue"
                  ELSE "finally"]
  /\ UNCHANGED <<wire, hist>>
  /\ unchanged_pipeline

\* finally: self.timer_active = False; the thread ends
TimerFinally(i) ==
  /\ timers[i].pc = "finally"
  /\ light' = [light EXCEPT !.timer_active = FALSE]
  /\ timers' = KeepIdx(timers, (1..Len(timers)) \ {i})
  /\ UNCHANGED wire
  /\ ObserveClear(i)
  /\ unchanged_pipeline

\* the steps of a timer thread that every controller has, while the
\* interpreter runs
TimerStep ==
  /\ ProcessRuns
  /\ \E i \in 1..Len(timers) :
       TimerWake(i) \/ TimerCallback(i) \/ TimerRestoreBlue(i) \/ TimerFinally(i)

\* the steps of a timer thread inside _send_command, which an enabled
\* controller has
TimerSend ==
  /\ ProcessRuns
  /\ \E i \in 1..Len(timers) : TimerSendBlue(i) \/ TimerPut(i)

\* _worker: cmd_queue.get returns an item.  None ends the loop without
\* task_done; a command runs func() = _write, whose ser.write succeeds or
\* raises, and then task_done
Worker ==
  /\ ProcessRuns
  /\ light.worker = "get"
  /\ light.cmd_queue # <<>>
  /\ LET item == Head(light.cmd_queue)
     IN IF item = SENTINEL
        THEN /\ light' = [light EXCEPT !.cmd_queue = Tail(@),
                                       !.worker = "exited"]
             /\ UNCHANGED <<wire, hist>>
        ELSE \E ok \in BOOLEAN :
               /\ light' = [(IF ok THEN write_command(light, item)
                                   ELSE write_failed(light, item))
                              EXCEPT !.cmd_queue = Tail(@),
                                     !.unfinished = @ - 1,
                                     !.worker = "check"]
               /\ wire' = IF ok THEN Received(wire, item) ELSE wire
               /\ hist' = [hist EXCEPT
                             !.write_failed = ~ok,
                             !.recovered = @ \/ (ok /\ hist.write_failed)]
  /\ UNCHANGED timers
  /\ unchanged_pipeline

\* _worker, line 91: the test of "while self.running", at the start of the
\* thread, after an item, or after a timeout of cmd_queue.get
WorkerLoop ==
  /\ ProcessRuns
  /\ light.worker = "check"
  /\ light' = [light EXCEPT !.worker = IF light.running THEN "get" ELSE "exited"]
  /\ UNCHANGED <<timers, wire, hist>>
  /\ unchanged_pipeline

\* _worker, lines 93-95: cmd_queue.get(timeout=0.2) finds the queue empty
\* for 0.2 s and raises queue.Empty; "continue" leads back to the test of
\* line 91
WorkerTimeout ==
  /\ ProcessRuns
  /\ light.worker = "get"
  /\ light.cmd_queue = <<>>
  /\ light' = [light EXCEPT !.worker = "check"]
  /\ UNCHANGED <<timers, wire, hist>>
  /\ unchanged_pipeline

\* the interpreter finishes after main() has ended, lines 60-61: the daemon
\* threads take no further step
ProcessExit ==
  /\ main.pc \in Ended
  /\ ~main.exited
  /\ main' = [main EXCEPT !.exited = TRUE]
  /\ UNCHANGED <<light, timers, wire, hist, status, frame_pc, light_call>>
  /\ unchanged_tracking

\* main(), lines 25-37: the camera is opened and the loop test is made for
\* the first time
MainStart ==
  /\ main.pc = "init"
  /\ \E source \in StartOutcomes :
       main' = IF source = "opened" THEN [main EXCEPT !.pc = "loop"]
               ELSE [main EXCEPT !.pc = "returned", !.event = "open_failure"]
  /\ UNCHANGED <<light, timers, wire, hist, status, frame_pc, light_call>>
  /\ unchanged_tracking

\* the frame loop leaves everything but main() itself as it is
unchanged_frame ==
  /\ UNCHANGED <<light, status, frame_pc, light_call, timers, wire, hist>>
  /\ unchanged_tracking

\* one iteration of the while loop of main(), lines 37-53, up to the point
\* where the frame thread stands in _send_command or _start_timer: the loop
\* test, read_frame, process_frame, and when process_frame returned at once
\* the key test.  An exception of process_frame leaves main(): of the
\* detector, before the tracker is called, or after the tracker and the
\* ledger were updated
MainFrame ==
  /\ main.pc = "loop"
  /\ frame_pc = "frame"
  /\ \E success \in IF main.reads < MaxVideoFrames THEN BOOLEAN ELSE {FALSE} :
       IF ~success
       THEN /\ main' = [main EXCEPT !.pc = "release", !.event = "stream_end"]
            /\ unchanged_frame
       ELSE LET m == [main EXCEPT !.reads = @ + 1]
                failed == [m EXCEPT !.pc = "raised", !.event = "frame_error"]
            IN \/ /\ main' = failed
                  /\ unchanged_frame
               \/ /\ DetectAndTrack(SessionDets, SessionItems)
                  /\ Timed(light_call') => Len(timers) < MaxTimers
                  /\ CASE frame_pc' = "raised" -> main' = failed
                       [] frame_pc' = "frame" -> AfterProcessFrame(m)
                       [] OTHER -> main' = m

\* processor.release(), line 55, and the end of main().  release() calls
\* camera_manager.release() and light_controller.close().  close() cancels
\* the timer and sets running False ("release"), puts the None on the queue
\* ("close_wake"), joins the worker for at most 0.5 s, and with an open port
\* calls turn_off_all(): its _cancel_timer() and the comparison of
\* _send_command ("close_join"), then the put_nowait ("close_put"); it waits
\* in cmd_queue.join() and closes the port ("queue_join"), and main()
\* returns ("done")
Release ==
  /\ CASE main.pc = "release" ->
            /\ light' = [cancel_timer(light) EXCEPT !.running = FALSE]
            /\ main' = [main EXCEPT !.released = TRUE, !.pc = "close_wake"]
       [] main.pc = "close_wake" ->
            /\ light' = put_nowait(light, SENTINEL)
            /\ main' = [main EXCEPT !.pc = IF light.worker # "none"
                                           THEN "close_join" ELSE "done"]
       [] main.pc = "close_join" ->
            /\ light' = IF light.ser_open THEN cancel_timer(light) ELSE light
            /\ main' = [main EXCEPT !.pc =
                          IF ~light.ser_open THEN "done"
                          ELSE IF send_command(light, ALL_OFF) THEN "close_put"
                          ELSE "queue_join"]
       [] main.pc = "close_put" ->
            /\ light' = put_nowait(light, ALL_OFF)
            /\ main' = [main EXCEPT !.pc = "queue_join"]
       [] main.pc = "queue_join" ->
            /\ light.unfinished = 0
            /\ light' = [light EXCEPT !.ser_open = FALSE]
            /\ main' = [main EXCEPT !.pc = "done"]
       [] OTHER -> FALSE
  /\ UNCHANGED <<timers, wire, hist, status, frame_pc, light_call>>
  /\ unchanged_tracking

\* boxes [x1, y1, x2, y2] of positive width and height on the grid
Boxes ==
  {b \in [x1 : 0..MaxIouCoord, y1 : 0..MaxIouCoord,
          x2 : 0..MaxIouCoord, y2 : 0..MaxIouCoord] :
     b.x1 < b.x2 /\ b.y1 < b.y2}

\* sequences of at most n elements of S
SeqUpTo(S, n) == UNION {[1..m -> S] : m \in 0..n}

\* tracked_boxes as Sort.update returns them: rows [x1, y1, x2, y2, id]
\* with different ids
TrackedBoxes ==
  {tb \in SeqUpTo([x1 : 0..MaxCoord, y1 : 0..MaxCoord, x2 : 0..MaxCoord,
                   y2 : 0..MaxCoord, id : 1..MaxTracks], MaxTracks) :
     /\ \A i \in 1..Len(tb) : tb[i].x1 < tb[i].x2 /\ tb[i].y1 < tb[i].y2
     /\ \A i, j \in 1..Len(tb) : tb[i].id = tb[j].id => i = j}

\* the class ids of the detections that are not storage boxes
ItemClasses == {1, 2, 10}

\* others_nd: rows [x1, y1, x2, y2, score, cls] of the item detections
ItemRows ==
  {rows \in SeqUpTo([x1 : 0..MaxCoord, y1 : 0..MaxCoord, x2 : 0..MaxCoord,
                     y2 : 0..MaxCoord, cls : ItemClasses], MaxRows) :
     \A i \in 1..Len(rows) : rows[i].x1 < rows[i].x2 /\ rows[i].y1 < rows[i].y2}

unchanged_program ==
  /\ UNCHANGED <<config_file, config, contains, count, trackers, frame_count, tracks,
                 disappeared_ids, state, ever_tracked_ids, active_ids, alerts,
                 status, light, timers, wire, frame_pc, light_call, hist>>
  /\ UNCHANGED main

\* process_frame, lines 80-104, on the tracked boxes and the item rows of
\* one frame
AssignItems ==
  /\ geometry.op = "none"
  /\ \E tracked_boxes \in TrackedBoxes :
       \E others_nd \in ItemRows :
         geometry' = [op |-> "assign", tracked_boxes |-> tracked_boxes,
                      others_nd |-> others_nd,
                      items_assign |-> ItemsAssign(tracked_boxes, others_nd)]
  /\ unchanged_program

\* iou_batch on the detections and the predicted boxes, on the same
\* arguments exchanged, and on the detections against themselves
IouBatch ==
  /\ geometry.op = "none"
  /\ \E dets \in SeqUpTo(Boxes, MaxIouDets) :
       \E trks \in SeqUpTo(Boxes, MaxTracks) :
         geometry' = [op |-> "iou", dets |-> dets, trks |-> trks,
                      iou_matrix |-> iou_batch(dets, trks),
                      exchanged |-> iou_batch(trks, dets),
                      self |-> iou_batch(dets, dets)]
  /\ unchanged_program

\* the boxes of the association: positive width and height on the grid of
\* the tracked boxes
AssocBoxes ==
  {b \in [x1 : 0..MaxCoord, y1 : 0..MaxCoord,
          x2 : 0..MaxCoord, y2 : 0..MaxCoord] :
     b.x1 < b.x2 /\ b.y1 < b.y2}

\* iou_threshold: the default 0.3 of associate_detections_to_trackers and
\* the 0.5 the pipeline configures
Thresholds == {[num |-> 3, den |-> 10], [num |-> 1, den |-> 2]}

\* associate_detections_to_trackers on the detections and the predicted
\* boxes of one frame
AssociateBoxes ==
  /\ geometry.op = "none"
  /\ \E dets \in SeqUpTo(AssocBoxes, MaxDets) :
       \E trks \in SeqUpTo(AssocBoxes, MaxTracks) :
         \E iou_threshold \in Thresholds :
           LET iou_matrix == iou_batch(dets, trks)
           IN \E matched_indices \in
                   MatchedIndices(iou_matrix, iou_threshold, Len(dets), Len(trks)) :
                LET r == Associate(iou_matrix, iou_threshold, Len(dets),
                                   Len(trks), matched_indices)
                IN geometry' = [op |-> "associate", dets |-> dets, trks |-> trks,
                                iou_threshold |-> iou_threshold,
                                iou_matrix |-> iou_matrix,
                                matches |-> r.matches,
                                unmatched_detections |-> r.unmatched_detections,
                                unmatched_trackers |-> r.unmatched_trackers]
  /\ unchanged_program

\* the geometric functions of the pipeline on the boxes of a small grid
InitGeometry == InitWith(FALSE, "valid")

NextGeometry == AssignItems \/ IouBatch \/ AssociateBoxes

SpecGeometry == InitGeometry /\ [][NextGeometry]_vars

\* process_frame, lines 80-114, under the configuration file with the
\* classes 1, 10 and 11, on the tracked boxes and the item rows of one frame:
\* the item counts and update_for_frame
CountItems ==
  /\ geometry.op = "none"
  /\ \E tracked_boxes \in TrackedBoxes :
       \E others_nd \in ItemRows :
         LET items_assign == ItemsAssign(tracked_boxes, others_nd)
             ids == [i \in 1..Len(tracked_boxes) |-> tracked_boxes[i].id]
             items_by_track ==
               [t \in Range(ids) |->
                  [k \in required |-> CounterGet(ItemsGet(items_assign, t), k)]]
         IN /\ state' = UpdateForFrame(state, ids, items_by_track)
            /\ ever_tracked_ids' = ever_tracked_ids \cup Range(ids)
            /\ active_ids' = Range(ids)
            /\ tracks' = ids
            /\ geometry' = [op |-> "count", tracked_boxes |-> tracked_boxes,
                            others_nd |-> others_nd,
                            items_assign |-> items_assign]
  /\ UNCHANGED <<config_file, config, contains, count, trackers, frame_count,
                 disappeared_ids, alerts, status, light, timers, wire,
                 frame_pc, light_call, hist>>
  /\ UNCHANGED main

\* one frame of item counting under the configuration file that requires
\* the classes 1 and 10
InitItems == InitWith(FALSE, "wide")

NextItems == CountItems

SpecItems == InitItems /\ [][NextItems]_vars

\* argument lists of the ledger methods: distinct ids, at most MaxLedgerIds
LedgerIds ==
  {ids \in SeqUpTo(1..MaxTracks, MaxLedgerIds) :
     \A i, j \in 1..Len(ids) : i # j => ids[i] # ids[j]}

unchanged_but_ledger ==
  /\ UNCHANGED <<config_file, config, contains, count, trackers, frame_count, tracks,
                 light, timers, wire, frame_pc, light_call, hist, geometry>>
  /\ UNCHANGED main

\* InventoryManager.update_for_frame on any tracked boxes and item counts
LedgerUpdate ==
  /\ \E ids \in LedgerIds :
       \E items \in [Range(ids) -> FrameCounts] :
         /\ state' = UpdateForFrame(state, ids, items)
         /\ ever_tracked_ids' = ever_tracked_ids \cup Range(ids)
         /\ active_ids' = Range(ids)
  /\ UNCHANGED <<disappeared_ids, alerts, status>>
  /\ unchanged_but_ledger

\* InventoryManager.get_labels_for_track on any id
LedgerLabels ==
  /\ \E tid \in 1..MaxTracks : state' = LabelsForTracks(state, <<tid>>)
  /\ UNCHANGED <<ever_tracked_ids, active_ids, disappeared_ids, alerts, status>>
  /\ unchanged_but_ledger

\* InventoryManager.handle_disappearance on any list of ids: it reads the
\* ledger and assigns none of its fields
LedgerDisappear ==
  /\ \E ids \in LedgerIds :
       LET h == HandleDisappearance(state, ever_tracked_ids, ids)
       IN /\ disappeared_ids' = ids
          /\ alerts' = h.alerts
          /\ status' = [completed_ids |-> h.completed_ids,
                        incomplete_ids |-> h.incomplete_ids]
  /\ UNCHANGED <<state, ever_tracked_ids, active_ids>>
  /\ unchanged_but_ledger

\* the ledger alone, its methods called in any order on any ids
InitLedger == InitWith(FALSE, "valid")

NextLedger == LedgerUpdate \/ LedgerLabels \/ LedgerDisappear

SpecLedger == InitLedger /\ [][NextLedger]_vars

\* the pipeline of one session on a host without the signal lamp: the serial
\* port cannot be opened, the controller is disabled and has no worker
\* thread; the VideoProcessor is built with ShortConfig and process_frame is
\* called frame after frame
Init == \E file \in ConfigFiles : InitWith(FALSE, file)

Next == Frame \/ StartTimer \/ TimerStep

Spec == Init /\ [][Next]_vars

\* the light controller with its worker and timer threads, driven by the
\* signal evaluation of the frame loop
InitSignal ==
  \E opened \in BOOLEAN : InitWith(opened, "valid")

NextSignal ==
  SignalFrame \/ FramePut \/ StartTimer \/ TimerStep \/ TimerSend
    \/ Worker \/ WorkerLoop \/ WorkerTimeout

SpecSignal == InitSignal /\ [][NextSignal]_vars

\* the same threads under fair scheduling of the timer threads and of the
\* writer: a timed command that was requested starts its timer, and a timer
\* or the worker that can take a step eventually takes it
SpecRevert ==
  /\ InitSignal
  /\ [][NextSignal]_vars
  /\ WF_vars(FramePut) /\ WF_vars(StartTimer)
  /\ WF_vars(TimerStep) /\ WF_vars(TimerSend)
  /\ WF_vars(Worker) /\ WF_vars(WorkerLoop) /\ WF_vars(WorkerTimeout)

\* main() of main.py from the construction of the VideoProcessor to its
\* end, with or without the lamp, together with the worker and the timers of
\* the light controller; every thread that can take a step eventually
\* takes it
InitMain == \E opened \in BOOLEAN : InitIn(opened, "valid", DefaultConfig, TRUE)

NextMain ==
  MainStart \/ MainFrame \/ Release \/ ProcessExit \/ FramePut \/ StartTimer
    \/ TimerStep \/ TimerSend \/ Worker \/ WorkerLoop \/ WorkerTimeout

SpecMain ==
  /\ InitMain
  /\ [][NextMain]_vars
  /\ WF_vars(MainStart) /\ WF_vars(MainFrame) /\ WF_vars(Release)
  /\ WF_vars(ProcessExit)
  /\ WF_vars(FramePut) /\ WF_vars(StartTimer)
  /\ WF_vars(TimerStep) /\ WF_vars(TimerSend)
  /\ WF_vars(Worker) /\ WF_vars(WorkerLoop) /\ WF_vars(WorkerTimeout)

(* ======================= tracker claims ======================= *)

\* C1: an id is in the disappeared-id list of an update call exactly when the
\* track was removed in that call and the id had been returned as reportable
\* by an earlier call; an id removed while has_been_returned was false is in
\* no disappeared-id list at all.
C1_DisappearedIffReturned ==
  /\ Range(disappeared_ids) = hist.removed \cap hist.returned_before
  /\ hist.removed_unreturned \cap Range(hist.reported) = {}

\* a returned track has been reported as disappeared and another track was
\* removed without ever having been returned
C1_Witness ==
  /\ hist.reported # <<>>
  /\ hist.removed_unreturned # {}

\* C2: over the lifetime of the tracker every id is in the disappeared-id
\* lists at most once, and only in the list of the call that removes the track.
C2_ReportedOnce ==
  /\ \A i, j \in 1..Len(hist.reported) :
       hist.reported[i] = hist.reported[j] => i = j
  /\ Range(disappeared_ids) \subseteq hist.removed
  /\ \A i \in 1..Len(trackers) : TrackId(trackers[i]) \notin Range(hist.reported)

\* an id was reported by an earlier call and the last call reported none
C2_Witness ==
  /\ hist.reported # <<>>
  /\ disappeared_ids = <<>>
  /\ hist.removed = {}

\* C3: ids are given out in strictly increasing order of creation, so no id
\* is given twice, also after earlier tracks have been removed.
C3_IdsIncrease ==
  \A i, j \in 1..Len(hist.created) :
    i < j => hist.created[i] < hist.created[j]

\* a track was created in a call after another track had been removed
C3_Witness ==
  /\ hist.created_after_gone
  /\ Len(hist.created) >= 2

\* tracker id had has_been_returned set before the call
ReturnedBefore(id) ==
  \E i \in 1..Len(trackers) :
    TrackId(trackers[i]) = id /\ trackers[i].has_been_returned

\* C27: in every update call a surviving track is returned exactly when its
\* time_since_update is below 1 and its hit_streak is at least min_hits or
\* the frame index of the call is at most min_hits; the returned tracks are
\* surviving tracks, and has_been_returned becomes true for exactly them.
C27_ReportableIff ==
  [][frame_count' = frame_count + 1 =>
       /\ \A i \in 1..Len(trackers') :
            /\ TrackId(trackers'[i]) \in Range(tracks')
                 <=> /\ trackers'[i].time_since_update < 1
                     /\ \/ trackers'[i].hit_streak >= min_hits
                        \/ frame_count' <= min_hits
            /\ trackers'[i].has_been_returned
                 <=> \/ ReturnedBefore(TrackId(trackers'[i]))
                     \/ TrackId(trackers'[i]) \in Range(tracks')
       /\ \A t \in Range(tracks') :
            \E i \in 1..Len(trackers') : TrackId(trackers'[i]) = t
       /\ \A i, j \in 1..Len(tracks') : tracks'[i] = tracks'[j] => i = j]_vars

\* after the grace window one track is returned for its hit streak while a
\* track created in the same call is not
C27_Witness ==
  /\ frame_count > min_hits
  /\ tracks # <<>>
  /\ \E i \in 1..Len(trackers) :
       /\ trackers[i].time_since_update = 0
       /\ trackers[i].hit_streak < min_hits
       /\ ~trackers[i].has_been_returned
       /\ TrackId(trackers[i]) \notin Range(tracks)

\* C38: in a frame after the start-up window every reportable track has
\* been matched in this and the min_hits - 1 frames before it without a
\* miss between them, a track that is not reportable keeps its ledger
\* record as it was, and a track that missed the frame before and is
\* matched now has a hit_streak of 1.
C38_StreakRestartsAfterMiss ==
  [][(frame_count' = frame_count + 1 /\ frame_count' > min_hits /\ min_hits >= 1) =>
       /\ \A t \in Range(tracks') : hist'.streak[t] >= min_hits
       /\ \A t \in DOMAIN state : t \notin Range(tracks') => state'[t] = state[t]
       /\ DOMAIN state' = DOMAIN state \cup Range(tracks')
       /\ \A i \in 1..Len(trackers) :
            (/\ trackers[i].time_since_update >= 1
             /\ TrackId(trackers[i]) \in hist'.matched)
              => \E j \in 1..Len(trackers') :
                   /\ TrackId(trackers'[j]) = TrackId(trackers[i])
                   /\ trackers'[j].hit_streak = 1]_vars

\* after the start-up window a track that had been reportable and has a
\* ledger record missed a frame and is matched again for the first time:
\* it is not reportable
C38_Witness ==
  /\ frame_count > min_hits
  /\ \E i \in 1..Len(trackers) :
       /\ trackers[i].has_been_returned
       /\ trackers[i].time_since_update = 0
       /\ trackers[i].hit_streak = 1
       /\ TrackId(trackers[i]) \in DOMAIN state
       /\ TrackId(trackers[i]) \notin Range(tracks)
       /\ TrackId(trackers[i]) \in hist.matched

\* C28: a track whose prediction is valid is removed in an update call
\* exactly when the call is its (max_age + 1)-th consecutive call without a
\* match, so that its time_since_update exceeds max_age at the end of the
\* call; no track is removed earlier, and a track matched in a call is not
\* removed in it.
C28_RemovedWhenStale ==
  [][frame_count' = frame_count + 1 =>
       /\ \A i \in 1..Len(trackers) :
            /\ trackers[i].time_since_update <= max_age
            /\ TrackId(trackers[i]) \notin hist'.removed_nan =>
                 (TrackId(trackers[i]) \in hist'.removed
                    <=> /\ trackers[i].time_since_update + 1 = max_age + 1
                        /\ TrackId(trackers[i]) \notin hist'.matched)
       /\ hist'.matched \cap hist'.removed = {}
       /\ hist'.removed \subseteq {TrackId(trackers[i]) : i \in 1..Len(trackers)}]_vars

\* the last call removed a track with a valid prediction for its age and
\* matched another one, and it is not the first call of the session
C28_Witness ==
  /\ hist.removed \ hist.removed_nan # {}
  /\ hist.matched # {}
  /\ frame_count > max_age + 1

(* ======================= geometry claims ======================= *)

\* the centre of item row r lies in box b or on its boundary
CentreWithin(r, b) ==
  /\ 2 * b.x1 <= r.x1 + r.x2 /\ r.x1 + r.x2 <= 2 * b.x2
  /\ 2 * b.y1 <= r.y1 + r.y2 /\ r.y1 + r.y2 <= 2 * b.y2

\* the centre of item row r lies on the boundary of box b
CentreOnBoundary(r, b) ==
  /\ CentreWithin(r, b)
  /\ \/ r.x1 + r.x2 \in {2 * b.x1, 2 * b.x2}
     \/ r.y1 + r.y2 \in {2 * b.y1, 2 * b.y2}

\* C22: for every reportable track and every class the frame processor
\* counts, the count of the track is the number of item detections of that
\* class whose centre lies in the box of the track, boundary included: an
\* item in several boxes counts for each of them, an item in no box for none.
C22_ItemsCountedByCentre ==
  geometry.op = "assign" =>
    \A i \in 1..Len(geometry.tracked_boxes) :
      \A cls \in 1..9 :
        CounterGet(ItemsGet(geometry.items_assign, geometry.tracked_boxes[i].id),
                   ClassKey(cls))
          = Cardinality({n \in 1..Len(geometry.others_nd) :
                           /\ geometry.others_nd[n].cls = cls
                           /\ CentreWithin(geometry.others_nd[n],
                                           geometry.tracked_boxes[i])})

\* two tracks, one item whose centre is inside the box of one and on the
\* boundary of the box of the other, and one item in neither box
C22_Witness ==
  /\ geometry.op = "assign"
  /\ Len(geometry.tracked_boxes) = 2
  /\ Len(geometry.others_nd) = 2
  /\ geometry.others_nd[1].cls = 1
  /\ geometry.others_nd[2].cls = 1
  /\ CentreOnBoundary(geometry.others_nd[1], geometry.tracked_boxes[1])
  /\ CentreWithin(geometry.others_nd[1], geometry.tracked_boxes[2])
  /\ ~CentreOnBoundary(geometry.others_nd[1], geometry.tracked_boxes[2])
  /\ \A i \in 1..2 : ~CentreWithin(geometry.others_nd[2], geometry.tracked_boxes[i])
  /\ \A i \in 1..2 :
       CounterGet(ItemsGet(geometry.items_assign, geometry.tracked_boxes[i].id),
                  "class1") = 1

\* boxes a and b have no common interior point
Disjoint(a, b) ==
  a.x2 <= b.x1 \/ b.x2 <= a.x1 \/ a.y2 <= b.y1 \/ b.y2 <= a.y1

\* C23: for boxes of positive width and height iou(A, B) = iou(B, A),
\* iou(A, A) = 1, and iou(A, B) = 0 when A and B do not overlap.
C23_IouSymmetricSelfDisjoint ==
  geometry.op = "iou" =>
    /\ \A i \in 1..Len(geometry.dets) : \A j \in 1..Len(geometry.trks) :
         /\ geometry.iou_matrix[i][j].den > 0
         /\ geometry.exchanged[j][i].den > 0
         /\ geometry.iou_matrix[i][j].num * geometry.exchanged[j][i].den
              = geometry.exchanged[j][i].num * geometry.iou_matrix[i][j].den
         /\ Disjoint(geometry.dets[i], geometry.trks[j])
              => geometry.iou_matrix[i][j].num = 0
    /\ \A i \in 1..Len(geometry.dets) :
         /\ geometry.self[i][i].den > 0
         /\ geometry.self[i][i].num = geometry.self[i][i].den

\* a detection that lies apart from one predicted box and overlaps
\* another one in part
C23_Witness ==
  /\ geometry.op = "iou"
  /\ Len(geometry.trks) = 2
  /\ \E i \in 1..Len(geometry.dets) :
       /\ Disjoint(geometry.dets[i], geometry.trks[1])
       /\ geometry.dets[i].x2 < geometry.trks[1].x1
       /\ geometry.iou_matrix[i][1].num = 0
       /\ geometry.iou_matrix[i][2].num > 0
       /\ geometry.iou_matrix[i][2].num < geometry.iou_matrix[i][2].den

\* how often index k is the c-th component of a matched pair or an entry
\* of the unmatched list
Occurrences(k, c, matches, unmatched) ==
  Cardinality({i \in 1..Len(matches) : matches[i][c] = k})
    + Cardinality({i \in 1..Len(unmatched) : unmatched[i] = k})

\* C33: in the result of the association every detection index occurs
\* exactly once among the matched pairs and the unmatched detections, every
\* prediction index exactly once among the matched pairs and the unmatched
\* predictions, and every matched pair has an IOU not below the threshold.
C33_AssociationPartitions ==
  geometry.op = "associate" =>
    /\ \A d \in 1..Len(geometry.dets) :
         Occurrences(d, 1, geometry.matches, geometry.unmatched_detections) = 1
    /\ \A t \in 1..Len(geometry.trks) :
         Occurrences(t, 2, geometry.matches, geometry.unmatched_trackers) = 1
    /\ Range(geometry.unmatched_detections) \subseteq 1..Len(geometry.dets)
    /\ Range(geometry.unmatched_trackers) \subseteq 1..Len(geometry.trks)
    /\ \A i \in 1..Len(geometry.matches) :
         /\ geometry.matches[i] \in
              (1..Len(geometry.dets)) \X (1..Len(geometry.trks))
         /\ ~Below(geometry.iou_matrix[geometry.matches[i][1]]
                                      [geometry.matches[i][2]],
                   geometry.iou_threshold)

\* two detections lie over the threshold on the same predicted box: the
\* assignment gives it to one of them and pairs the other with the second
\* predicted box, a pair below the threshold that is demoted
C33_Witness ==
  /\ geometry.op = "associate"
  /\ Len(geometry.dets) = 2 /\ Len(geometry.trks) = 2
  /\ \E t \in 1..2 : \A d \in 1..2 :
       Below(geometry.iou_threshold, geometry.iou_matrix[d][t])
  /\ Len(geometry.matches) = 1
  /\ \E d, t \in 1..2 :
       /\ d \in Range(geometry.unmatched_detections)
       /\ t \in Range(geometry.unmatched_trackers)
       /\ geometry.iou_matrix[d][t].num > 0

(* ======================= ledger claims ======================= *)

\* C4: a completed flag that is true stays true through every later frame,
\* and so does is_all_completed, whatever the later counts are; a track whose
\* flags are all true after update_for_frame has is_all_completed true.
C4_StickyCompleted ==
  [][/\ \A t \in DOMAIN state :
          /\ t \in DOMAIN state'
          /\ \A k \in required :
               state[t].completed[k] => state'[t].completed[k]
          /\ state[t].is_all_completed => state'[t].is_all_completed
     /\ \A t \in Range(tracks') :
          (\A k \in required : state'[t].completed[k])
             => state'[t].is_all_completed]_vars

\* a track completed its classes in different frames and is still complete
\* in a frame that shows none of the items
C4_Witness ==
  \E t \in Range(tracks) :
    /\ state[t].is_all_completed
    /\ \A k \in required : state[t].achieved[k] = 0

\* an alert of the last handle_disappearance call is about track t
AlertsFor(t) == {i \in 1..Len(alerts) : alerts[i].track_id = t}

\* C5: a disappeared id that was reportable before and has every required
\* class completed gets no alert and is listed as completed, not as incomplete.
C5_CompletedNoAlert ==
  \A t \in Range(disappeared_ids) \cap ever_tracked_ids :
    (\A k \in required : state[t].completed[k])
      => /\ AlertsFor(t) = {}
         /\ t \in Range(status.completed_ids)
         /\ t \notin Range(status.incomplete_ids)

\* a completed track disappears in the last frame
C5_Witness ==
  \E t \in Range(disappeared_ids) \cap ever_tracked_ids :
    \A k \in required : state[t].completed[k]

\* C6: a disappeared id that was reportable before and has a required class
\* never completed gets exactly one alert, whose missing list is exactly the
\* required classes with a false flag, each with its display name, and is
\* listed as incomplete, not as completed.
C6_IncompleteOneAlert ==
  \A t \in Range(disappeared_ids) \cap ever_tracked_ids :
    (\E k \in required : ~state[t].completed[k])
      => /\ Cardinality(AlertsFor(t)) = 1
         /\ \A i \in AlertsFor(t) :
              alerts[i].missing =
                {<<k, names[k]>> : k \in {c \in required : ~state[t].completed[c]}}
         /\ t \in Range(status.incomplete_ids)
         /\ t \notin Range(status.completed_ids)

\* a track that completed one required class but not another disappears
C6_Witness ==
  \E t \in Range(disappeared_ids) \cap ever_tracked_ids :
    /\ \E k \in required : ~state[t].completed[k]
    /\ \E k \in required : state[t].completed[k]

\* C35: over the session no track id is alerted twice, and every alert of a
\* frame is about an id that the tracker reports as disappeared in this
\* frame and had returned as reportable in an earlier frame.
C35_OneAlertPerTrack ==
  /\ \A i, j \in 1..Len(hist.alerted) :
       hist.alerted[i] = hist.alerted[j] => i = j
  /\ \A i \in 1..Len(alerts) :
       /\ alerts[i].track_id \in Range(disappeared_ids)
       /\ alerts[i].track_id \in hist.returned_before
       /\ alerts[i].track_id \in hist.removed
  /\ Range(hist.alerted) \subseteq Range(hist.reported)

\* two tracks were alerted, in different frames
C35_Witness ==
  /\ Len(hist.alerted) = 2
  /\ Len(alerts) = 1
  /\ Len(hist.reported) = 2

\* C36: the alerts of a frame are one per id of incomplete_ids and none for
\* any other id, so the alert list is non-empty exactly when incomplete_ids
\* is, which is exactly when the frame calls the red alarm.  A frame that
\* process_frame leaves by an exception hands no alert list to the frame
\* loop and makes no signal evaluation: it starts no recording and calls no
\* alarm.
C36_AlertsMatchIncomplete ==
  /\ \A t \in Range(status.incomplete_ids) : Cardinality(AlertsFor(t)) = 1
  /\ \A i \in 1..Len(alerts) : alerts[i].track_id \in Range(status.incomplete_ids)
  /\ Len(alerts) = Len(status.incomplete_ids)
  /\ alerts # <<>> <=> status.incomplete_ids # <<>>
  /\ frame_pc # "raised" => (alerts # <<>> <=> light_call = "red")

\* a track with one of its two required classes completed disappears in
\* the same frame as a completed track
C36_Witness ==
  /\ Len(alerts) = 1
  /\ Len(status.completed_ids) = 1
  /\ light_call = "red"
  /\ \E t \in Range(status.incomplete_ids) :
       \E k \in required : state[t].completed[k]

\* C29: after update_for_frame the achieved count of every required class
\* of every reportable track is the count of that class in the frame just
\* processed, and a completed flag becomes true only in a frame that shows
\* at least the required quantity.
C29_AchievedIsFrameLocal ==
  [][frame_count' = frame_count + 1 =>
       \A t \in Range(tracks') : \A k \in required :
         /\ state'[t].achieved[k] = hist'.frame_counts[t][k]
         /\ (/\ state'[t].completed[k]
             /\ ~(t \in DOMAIN state /\ state[t].completed[k]))
              => hist'.frame_counts[t][k] >= contains[k]]_vars

\* a reportable track that completed one class in an earlier frame shows
\* none of it now, and shows one item of a class that requires two, whose
\* flag is still false
C29_Witness ==
  \E t \in Range(tracks) :
    /\ "class1" \in required /\ "class2" \in required
    /\ contains["class1"] = 2
    /\ state[t].achieved["class1"] = 1
    /\ ~state[t].completed["class1"]
    /\ state[t].completed["class2"]
    /\ state[t].achieved["class2"] = 0
    /\ \E i \in 1..Len(trackers) :
         TrackId(trackers[i]) = t /\ trackers[i].hit_streak >= 3

\* C30: a call of handle_disappearance leaves state, ever_tracked_ids and
\* active_ids as they were, and an id of its argument that is not in
\* ever_tracked_ids gets no alert and is in neither completed_ids nor
\* incomplete_ids.
C30_NeverReportableSkipped ==
  [][<<disappeared_ids, alerts, status>>' # <<disappeared_ids, alerts, status>> =>
       /\ UNCHANGED <<state, ever_tracked_ids, active_ids>>
       /\ \A tid \in Range(disappeared_ids') \ ever_tracked_ids :
            /\ \A i \in 1..Len(alerts') : alerts'[i].track_id # tid
            /\ tid \notin Range(status'.completed_ids)
            /\ tid \notin Range(status'.incomplete_ids)]_vars

\* the call got an id that has a record with a false is_all_completed but
\* was never a reportable track, next to an id that was and is alerted
C30_Witness ==
  /\ \E tid \in Range(disappeared_ids) \ ever_tracked_ids :
       tid \in DOMAIN state /\ ~state[tid].is_all_completed
  /\ \E i \in 1..Len(alerts) : alerts[i].track_id \in ever_tracked_ids
  /\ Len(disappeared_ids) = 2 /\ Len(status.incomplete_ids) = 1

\* C20: in every ledger state every track record has is_all_completed true
\* exactly when the completed flag of every required class is true; with an
\* empty requirement set it is true.
C20_AllCompletedIffFlags ==
  \A t \in DOMAIN state :
    /\ state[t].is_all_completed <=> (\A k \in required : state[t].completed[k])
    /\ required = {} => state[t].is_all_completed

\* under an empty requirement set a track with a ledger record disappears
\* while another one is tracked
C20_Witness ==
  /\ required = {}
  /\ \E t \in Range(disappeared_ids) : t \in DOMAIN state
  /\ \E t \in Range(tracks) : state[t].is_all_completed

\* C21: a class whose quantity in the configuration file is 0 or less is no
\* requirement: it is in the missing list of no alert, it has no completed
\* flag, and a track whose classes of positive quantity are all completed
\* has is_all_completed true.
C21_OnlyPositiveRequired ==
  LET q == IF config_file = "valid" THEN FileQuantity ELSE <<>>
      optional == {k \in DOMAIN q : q[k] <= 0}
      needed == {k \in DOMAIN q : q[k] > 0}
  IN /\ \A i \in 1..Len(alerts) :
          \A m \in alerts[i].missing : m[1] \notin optional
     /\ \A t \in DOMAIN state :
          /\ DOMAIN state[t].completed \cap optional = {}
          /\ (\A k \in needed : state[t].completed[k])
                => state[t].is_all_completed

\* under the valid file, whose class3 has a negative quantity, one track
\* disappears with an alert and another one as completed in the same frame
C21_Witness ==
  /\ config_file = "valid"
  /\ alerts # <<>>
  /\ \E t \in Range(status.completed_ids) : state[t].is_all_completed

\* the item rows of class key k whose centre lies in box b
RowsOfClassIn(k, b) ==
  {n \in 1..Len(geometry.others_nd) :
     /\ ClassKey(geometry.others_nd[n].cls) = k
     /\ CentreWithin(geometry.others_nd[n], b)}

\* C39: for every class the loader keeps with a positive quantity, a frame
\* that shows at least that many detections of the class with their centre
\* in the box of a reportable track sets the completed flag of the class
\* for that track.
C39_KeptClassCanComplete ==
  geometry.op = "count" =>
    \A i \in 1..Len(geometry.tracked_boxes) : \A k \in required :
      Cardinality(RowsOfClassIn(k, geometry.tracked_boxes[i])) >= contains[k]
        => state[geometry.tracked_boxes[i].id].completed[k]

(* ======================= session claims ======================= *)

\* C17: a session whose configuration file is missing or malformed processes
\* no frame: session start is aborted, so every frame is processed under the
\* requirement set of the configuration file.
C17_BadConfigAborts ==
  frame_count > 0 => (config_file = "valid" /\ contains = Quantity)

(* ======================= thread claims ======================= *)

\* a terminating event has happened: the q key asked for the stop, the
\* stream ended, the source could not be opened or processing a frame raised
Terminating == main.event # "none"

\* the thread of the pipeline has ended with its cleanup done: capture
\* released, signal controller closed (not running, port closed, worker
\* thread ended)
CleanedUp ==
  /\ main.pc = "done"
  /\ main.released
  /\ ~light.running
  /\ ~light.ser_open
  /\ light.worker \in {"none", "exited"}

\* C15: after any terminating event the thread of the pipeline eventually
\* finishes its cleanup (capture release, signal controller close) and is
\* no longer running.
C15_EventuallyCleanedUp == Terminating ~> CleanedUp

\* C37: when the thread of the pipeline has ended, on whatever path (a
\* return or an exception that leaves it), processor.release() has run (the
\* capture handle is released) and the signal controller is closed: the
\* serial port is not open and the worker thread has ended.
C37_EveryExitReleases ==
  main.pc \in Ended =>
    /\ main.released
    /\ ~light.ser_open
    /\ light.worker \in {"none", "exited"}

\* close() has put its None on the queue and is about to test the port,
\* which is open
Closing == main.pc = "close_join" /\ light.ser_open

\* the port is closed, no command is left on the queue, and the last command
\* the hardware received is all-off (or the last write raised, or the lamp
\* never left its initial all-off state)
ClosedAllOff ==
  /\ ~light.ser_open
  /\ \A i \in 1..Len(light.cmd_queue) : light.cmd_queue[i] = SENTINEL
  /\ \/ wire.last = ALL_OFF
     \/ hist.write_failed
     \/ wire.last = "none" /\ light.current_state = ALL_OFF

\* C34: a close() with the serial port open leads to the port being closed
\* after every queued command and the all-off command have been written.
C34_CloseWritesAllOffFirst == Closing ~> ClosedAllOff

(* ======================= signal claims ======================= *)

\* C7: the signal evaluation of a frame with an incomplete and a completed
\* disappearance calls the flashing-red-with-buzzer command, which starts
\* the red timer, not the green.  (A frame that process_frame leaves by an
\* exception has no signal evaluation.)
C7_RedBeforeGreen ==
  (/\ status.completed_ids # <<>> /\ status.incomplete_ids # <<>>
   /\ frame_pc # "raised")
    => /\ light_call = "red"
       /\ frame_pc \notin {"put_green", "start_green"}

\* a completed and an incomplete track disappear in the same frame
C7_Witness ==
  /\ status.completed_ids # <<>>
  /\ status.incomplete_ids # <<>>
  /\ Range(status.completed_ids) \cup Range(status.incomplete_ids)
       \subseteq Range(disappeared_ids)
  /\ frame_pc = "start_red"

\* C31: a frame in which the tracker reports no disappeared id, evaluated
\* while timer_active is false, calls yellow_light_on when the tracker
\* returned no reportable track and blue_light_on when it returned one.
\* (A frame that process_frame leaves by an exception has no signal
\* evaluation.)
C31_SteadyYellowOrBlue ==
  [][(/\ frame_count' = frame_count + 1
      /\ disappeared_ids' = <<>>
      /\ frame_pc' # "raised"
      /\ ~is_timer_running(light))
       => light_call' = (IF tracks' = <<>> THEN "yellow" ELSE "blue")]_vars

\* after the start-up frames a detection is being tracked but is not yet
\* reportable: the frame asked for yellow although a box was detected
C31_Witness ==
  /\ light_call = "yellow"
  /\ tracks = <<>>
  /\ disappeared_ids = <<>>
  /\ frame_count > min_hits
  /\ \E i \in 1..Len(trackers) : trackers[i].time_since_update = 0

\* C8: once a newer timed command is started while an older revert is still
\* pending, the older timer never runs its revert and never clears the
\* timer_active flag of the newer command.
C8_SupersededNeverFires ==
  /\ \A i \in 1..Len(timers) :
       timers[i].superseded =>
         timers[i].pc \notin {"callback", "put_off", "restore_blue",
                              "send_blue", "put_blue"}
  /\ ~hist.stale_clear

\* C9: a signal evaluation without disappearance events, made while a timed
\* command is in flight, calls no controller method (no yellow, no blue, no
\* cancellation of the pending revert).
C9_InFlightUntouched ==
  (/\ hist.inflight
   /\ status.completed_ids = <<>>
   /\ status.incomplete_ids = <<>>)
    => light_call = "none"

\* C10: two consecutive writes to the serial port are different commands.
C10_NoRepeatedWrite == ~wire.same_twice

\* the lamp shows the colour of a timed command
TimedShown == wire.last \in {GREEN_ON, RED_FLASH_BUZZER}

\* a disappearance event is being signalled: its timer is about to start
NewEvent == frame_pc \in {"put_red", "put_green", "start_red", "start_green"}

\* C24: once the lamp shows the colour of a timed command, the steady blue
\* command is eventually written to the hardware, unless a further
\* disappearance event occurs or a write fails, when the frame loop, the
\* timers and the writer are scheduled fairly.
C24_RevertWritesBlue ==
  TimedShown ~> (wire.last = BLUE_ON \/ NewEvent \/ hist.write_failed)

\* C18: a controller whose serial port could not be opened never queues and
\* never writes a command, whatever is requested; a write that fails on the
\* worker leaves current_state and the position of the requesting frame
\* thread unchanged, and the worker goes on to its loop test, not to its end.
C18_HardwareFailureContained ==
  [][/\ ~light.enabled =>
          /\ light'.cmd_queue = <<>>
          /\ wire'.last = "none"
          /\ light'.worker = "none"
     /\ (light'.unfinished < light.unfinished /\ hist'.write_failed) =>
          /\ light'.current_state = light.current_state
          /\ light'.worker = "check"
          /\ light'.running
          /\ frame_pc' = frame_pc
          /\ wire' = wire]_vars

\* after a failed write the worker has written a later command, which is
\* now the recorded current state
C18_Witness ==
  /\ hist.recovered
  /\ ~hist.write_failed
  /\ light.current_state = wire.last

====
